---- MODULE Spec2Model ----
(***************************************************************************)
(* Session store (AuthContext.tsx) and HTTP client (services/api.ts) of    *)
(* the RAW Labour Hire timesheet mobile app.                               *)
(*                                                                         *)
(* JavaScript runs each continuation (the code between two awaits) to      *)
(* completion, so one action is one continuation together with the native  *)
(* effect whose completion resumed it.  React state written by one         *)
(* continuation (setToken, setUser, setIsLoading) is committed when that   *)
(* continuation ends; the module variable authToken of api.ts and the      *)
(* secure store are written at once.                                       *)
(***************************************************************************)
EXTENDS Integers, Sequences, FiniteSets, TLC

\* ------------------------------------------------------------------------
\* Bounds of the model

\* number of distinct access tokens the server can issue
MaxTokens == 2

\* the store's callers: handler invocations running in mounted screens
Handlers == {"h1", "h2"}

\* ------------------------------------------------------------------------
\* Values

\* JavaScript null, for a string-valued slot (token, stored item)
Null == "<null>"

\* JavaScript null, for the object-valued slot `user`
NullUser == [null |-> TRUE]

\* JavaScript undefined, as the result of optional chaining
Undefined == "<undefined>"

Tokens == {"tok" \o ToString(i) : i \in 1..MaxTokens}

Emails == {"user7@example.com", "user8@example.com"}

Passwords == {"secret123"}

\* server side: the user record the login endpoint returns for an account
ServerUser(email) ==
    [id |-> IF email = "user7@example.com" THEN 7 ELSE 8, email |-> email]

\* the partial user records screens pass to updateUser
UserPatches == {[phone |-> "0400000000"]}

\* the fields of two profile updates that share no field
ProfilePatches == UserPatches \cup {[address |-> "12 Main St"]}

\* a JavaScript value is truthy unless it is null, undefined or ""
Truthy(v) == v # Null /\ v # Undefined /\ v # ""

\* ------------------------------------------------------------------------
\* JSON.stringify / JSON.parse on user objects (functions from keys to values)

KeyOrder == <<"id", "email", "phone", "address">>

\* the keys of a user object whose values are numbers
NumberKeys == {"id"}

JsonValue(k, v) == IF k \in NumberKeys THEN ToString(v) ELSE "\"" \o v \o "\""

RECURSIVE JsonMembers(_, _, _)
JsonMembers(obj, i, first) ==
    IF i > Len(KeyOrder) THEN ""
    ELSE IF KeyOrder[i] \in DOMAIN obj
         THEN (IF first THEN "" ELSE ",")
              \o "\"" \o KeyOrder[i] \o "\":" \o JsonValue(KeyOrder[i], obj[KeyOrder[i]])
              \o JsonMembers(obj, i + 1, FALSE)
         ELSE JsonMembers(obj, i + 1, first)

JSONStringify(obj) == "{" \o JsonMembers(obj, 1, TRUE) \o "}"

\* { ...user, ...userData }
Spread(obj, patch) ==
    [k \in DOMAIN obj \cup DOMAIN patch |->
        IF k \in DOMAIN patch THEN patch[k] ELSE obj[k]]

\* every user object the store can hold
UserObjects ==
    LET base == {ServerUser(e) : e \in Emails}
        once == base \cup {Spread(u, p) : u \in base, p \in ProfilePatches}
    IN  once \cup {Spread(u, p) : u \in once, p \in ProfilePatches}

JSONParse(text) == CHOOSE u \in UserObjects : JSONStringify(u) = text

\* JSON.parse(text) returns rather than throws
IsJSON(text) == \E u \in UserObjects : JSONStringify(u) = text

\* a stored item that is not JSON text
Corrupt == "{\"id\":7,"

\* ------------------------------------------------------------------------
\* HTTP client (services/api.ts)

NoHeader == Undefined

\* `Bearer ${authToken}`
Bearer(t) == "Bearer " \o t

\* request interceptor: the Authorization header of the outgoing request,
\* from the module variable as it is when the request is sent
\* (AtCreation: from the variable as it was when the client was created, null)
RequestAuthorizationAtCreation(moduleToken) == NoHeader

RequestAuthorization(moduleToken) ==
    IF Truthy(moduleToken) THEN Bearer(moduleToken) ELSE NoHeader

RequestInterceptor(url, moduleToken) ==
    [url |-> url, Authorization |-> RequestAuthorization(moduleToken)]

\* errors the HTTP client rejects with: a response with a status and a body,
\* or none at all (network failure, timeout)
AxiosError(status, data) ==
    [name |-> "AxiosError", response |-> [status |-> status, data |-> data]]

NetworkError == [name |-> "AxiosError", message |-> "Network Error"]

\* the failures a request to url can end in: a 4xx with a detail message, a
\* 5xx without one, no response at all
HttpErrors(url) ==
    { IF url = "/auth/register"
      THEN AxiosError(400, [detail |-> "Email already registered"])
      ELSE AxiosError(401, [detail |->
               IF url = "/auth/login" THEN "Incorrect email or password"
               ELSE "Could not validate credentials"]),
      AxiosError(500, [error |-> "Internal Server Error"]),
      NetworkError }

\* response interceptor, error branch: what the caller's promise rejects with
ResponseInterceptorReject(error) == error

\* error.response?.status === 401
IsUnauthorized(error) ==
    "response" \in DOMAIN error /\ error.response.status = 401

\* response interceptor, error branch: the module token after handling
\* (ClearsOn401: an interceptor that drops the token when it sees a 401)
ResponseInterceptorTokenClearsOn401(error, moduleToken) ==
    IF IsUnauthorized(error) THEN Null ELSE moduleToken

ResponseInterceptorToken(error, moduleToken) == moduleToken

\* new Error(message)
JsError(message) == [name |-> "Error", message |-> message]

\* what expo-secure-store rejects with when the keychain call fails
SecureStoreError == JsError("SecureStore call failed")

\* error.response?.data?.detail
ResponseDetail(error) ==
    IF "response" \in DOMAIN error
       /\ "data" \in DOMAIN error.response
       /\ "detail" \in DOMAIN error.response.data
    THEN error.response.data.detail
    ELSE Undefined

\* a || b
OrElse(a, b) == IF Truthy(a) THEN a ELSE b

\* catch block of login
LoginCatch(error) == JsError(OrElse(ResponseDetail(error), "Login failed"))

\* catch block of register
RegisterCatch(error) ==
    JsError(OrElse(ResponseDetail(error), "Registration failed"))

\* promise states
Pending == [status |-> "pending"]
Fulfilled == [status |-> "fulfilled"]
Rejected(reason) == [status |-> "rejected", reason |-> reason]

\* ------------------------------------------------------------------------
\* api.ts: the base URL, resolved when the module is loaded

MaxHostLen == 3

\* the characters of a hostUri: ":" and one that stands for any other
HostChars == {"h", ":"}

HostTexts == UNION {[1..n -> HostChars] : n \in 0..MaxHostLen}

\* Constants.expoConfig?.hostUri, Constants.manifest?.hostUri: undefined or a
\* string, held as its characters
NoHostUri == [defined |-> FALSE, chars |-> <<>>]

HostUri(chars) == [defined |-> TRUE, chars |-> chars]

ExpoHostUris == {NoHostUri} \cup {HostUri(c) : c \in HostTexts}

ManifestHostUris == {NoHostUri, HostUri(<<"m", ":", "p">>)}

\* a string or undefined in a condition
TruthyText(v) == v.defined /\ v.chars # <<>>

\* String(hostUri).split(sep)[0]
RECURSIVE SplitFirst(_, _)
SplitFirst(chars, sep) ==
    IF chars = <<>> \/ Head(chars) = sep
    THEN <<>>
    ELSE <<Head(chars)>> \o SplitFirst(Tail(chars), sep)

\* the characters as a string, for the template literal
RECURSIVE Text(_)
Text(chars) ==
    IF chars = <<>> THEN "" ELSE Head(chars) \o Text(Tail(chars))

getDevBaseUrl(expoHostUri, manifestHostUri) ==
    LET hostUri == IF TruthyText(expoHostUri) THEN expoHostUri
                   ELSE manifestHostUri
        host == SplitFirst(hostUri.chars, ":")
    IN  IF TruthyText(hostUri) /\ host # <<>>
        THEN "http://" \o Text(host) \o ":8000/api"
        ELSE "http://localhost:8000/api"

PRODUCTION_URL ==
    "https://raw-labour-hire-timesheet-production.up.railway.app/api"

\* process.env.EXPO_PUBLIC_API_URL
EnvUrls == {Undefined, "", "https://staging.example.com/api"}

\* what the module reads when it is loaded
Builds ==
    [EXPO_PUBLIC_API_URL : EnvUrls, DEV : BOOLEAN,
     expoHostUri : ExpoHostUris, manifestHostUri : ManifestHostUris]

ProductionBuild ==
    [EXPO_PUBLIC_API_URL |-> Undefined, DEV |-> FALSE,
     expoHostUri |-> NoHostUri, manifestHostUri |-> NoHostUri]

\* (IgnoringDev: the development host is consulted in every build)
API_BASE_URLIgnoringDev(build) ==
    IF Truthy(build.EXPO_PUBLIC_API_URL) THEN build.EXPO_PUBLIC_API_URL
    ELSE IF getDevBaseUrl(build.expoHostUri, build.manifestHostUri)
              # "http://localhost:8000/api"
    THEN getDevBaseUrl(build.expoHostUri, build.manifestHostUri)
    ELSE PRODUCTION_URL

API_BASE_URL(build) ==
    IF Truthy(build.EXPO_PUBLIC_API_URL) THEN build.EXPO_PUBLIC_API_URL
    ELSE IF build.DEV
    THEN getDevBaseUrl(build.expoHostUri, build.manifestHostUri)
    ELSE PRODUCTION_URL

\* ------------------------------------------------------------------------
\* State

VARIABLES
    token,          \* AuthProvider: useState token
    user,           \* AuthProvider: useState user
    isLoading,      \* AuthProvider: useState isLoading
    authToken,      \* api.ts: module variable authToken
    storedToken,    \* SecureStore item raw_auth_token (Null: no such item)
    storedUser,     \* SecureStore item raw_user_data (Null: no such item)
    restorePc,      \* loadStoredAuth: the await it is suspended at
    restoreToken,   \* loadStoredAuth: local storedToken
    pc,             \* per handler: the await its store call is suspended at
    op,             \* per handler: the call it made
    args,           \* per handler: the call's arguments
    wire,           \* per handler: its HTTP request in flight and the reply
    response,       \* per handler: login's response.data
    loginError,     \* per handler: what login rejected with
    result,         \* per handler: the promise returned to the caller
    closureUser,    \* `user` as closed over by the screen's updateUser
    before,         \* per handler: the session when the call was made
    config,         \* api.ts: what the module reads when loaded, API_BASE_URL
    screen,         \* a screen's backend call, its reply, what the user sees
    clock           \* ClockInScreen / ClockOutScreen: component state

vars == <<token, user, isLoading, authToken, storedToken, storedUser,
          restorePc, restoreToken, pc, op, args, wire, response, loginError,
          result, closureUser, before, config, screen, clock>>

\* what lies outside the session store and the client's token
views == <<config, screen, clock>>

session == <<token, user, authToken, storedToken, storedUser>>

locals == <<pc, op, args, wire, response, loginError, result, before>>

NoArgs == [none |-> TRUE]
NoWire == [none |-> TRUE]
NoReply == [none |-> TRUE]
NoResponse == [none |-> TRUE]
NoError == [none |-> TRUE]
NoSnapshot == [none |-> TRUE]
NoScreenCall == [none |-> TRUE]
NoClockScreen == [none |-> TRUE]

Snapshot ==
    [token |-> token, user |-> user, authToken |-> authToken,
     storedToken |-> storedToken, storedUser |-> storedUser]

\* context value: isAuthenticated: !!token
isAuthenticated == Truthy(token)

\* AppNavigator: the routes the stack navigator renders
AuthScreens == {"Login", "Register", "ResetPassword"}

AppScreens ==
    {"Main", "ClockIn", "ClockOut", "SupervisorSignature", "TimesheetDetail"}

AppNavigator ==
    IF isLoading THEN {}
    ELSE IF ~isAuthenticated THEN AuthScreens
    ELSE AppScreens

SessionOps == {"login", "register", "logout", "updateUser"}

\* a session operation of handler h is between its call and its return
InProgress(h) == op[h] \in SessionOps

\* calls are made from mounted screens, one at a time
MayCall(h) ==
    /\ ~isLoading
    /\ \A g \in Handlers : pc[g] = "idle"

\* the module is loaded in a production build; no screen has called yet
ViewsAtRest ==
    /\ config = [build |-> ProductionBuild,
                 baseURL |-> API_BASE_URL(ProductionBuild)]
    /\ screen = NoScreenCall
    /\ clock = NoClockScreen

\* a fresh install: nothing stored, the provider just mounted
StoreAtStart ==
    /\ token = Null
    /\ user = NullUser
    /\ isLoading = TRUE
    /\ authToken = Null
    /\ storedToken = Null
    /\ storedUser = Null
    /\ restorePc = "getToken"
    /\ restoreToken = Null
    /\ pc = [h \in Handlers |-> "idle"]
    /\ op = [h \in Handlers |-> "none"]
    /\ args = [h \in Handlers |-> NoArgs]
    /\ wire = [h \in Handlers |-> NoWire]
    /\ response = [h \in Handlers |-> NoResponse]
    /\ loginError = [h \in Handlers |-> NoError]
    /\ result = [h \in Handlers |-> Pending]
    /\ closureUser = NullUser
    /\ before = [h \in Handlers |-> NoSnapshot]

\* a session restored or logged in, no call in progress
StoreLoggedIn ==
    /\ token = "tok1"
    /\ user = ServerUser("user7@example.com")
    /\ isLoading = FALSE
    /\ authToken = "tok1"
    /\ storedToken = "tok1"
    /\ storedUser = JSONStringify(ServerUser("user7@example.com"))
    /\ restorePc = "done"
    /\ restoreToken = "tok1"
    /\ pc = [h \in Handlers |-> "idle"]
    /\ op = [h \in Handlers |-> "none"]
    /\ args = [h \in Handlers |-> NoArgs]
    /\ wire = [h \in Handlers |-> NoWire]
    /\ response = [h \in Handlers |-> NoResponse]
    /\ loginError = [h \in Handlers |-> NoError]
    /\ result = [h \in Handlers |-> Pending]
    /\ closureUser = ServerUser("user7@example.com")
    /\ before = [h \in Handlers |-> NoSnapshot]

Init ==
    /\ StoreAtStart
    /\ ViewsAtRest

\* ------------------------------------------------------------------------
\* loadStoredAuth (restoreSession), run once by the provider's mount effect

\* (NoFinally: setIsLoading(false) is the last statement of the try block)
IsLoadingAfterRestoreNoFinally(thrown) == thrown

\* finally { setIsLoading(false) }, whether or not the try block threw
IsLoadingAfterRestore(thrown) == FALSE

\* await SecureStore.getItemAsync(TOKEN_KEY) settles
RestoreGetToken ==
    /\ restorePc = "getToken"
    /\ \/ /\ restoreToken' = storedToken
          /\ restorePc' = "getUser"
          /\ UNCHANGED isLoading
       \/ \* the read rejects: catch, finally
          /\ restoreToken' = Null
          /\ restorePc' = "done"
          /\ isLoading' = IsLoadingAfterRestore(TRUE)
    /\ UNCHANGED <<session, locals, closureUser>>
    /\ UNCHANGED views

\* the state loadStoredAuth sets once both reads have settled
\* (TokenOnly: the guard tests storedToken alone)
RestoreCommitTokenOnly(tok, usr) ==
    IF Truthy(tok)
    THEN [token |-> tok,
          user |-> IF Truthy(usr) THEN JSONParse(usr) ELSE NullUser,
          authToken |-> tok]
    ELSE [token |-> token, user |-> user, authToken |-> authToken]

\* (NoClientToken: setAuthToken is left out)
RestoreCommitNoClientToken(tok, usr) ==
    IF Truthy(tok) /\ Truthy(usr)
    THEN [token |-> tok, user |-> JSONParse(usr), authToken |-> authToken]
    ELSE [token |-> token, user |-> user, authToken |-> authToken]

RestoreCommit(tok, usr) ==
    IF Truthy(tok) /\ Truthy(usr)
    THEN IF IsJSON(usr)
         THEN [token |-> tok, user |-> JSONParse(usr), authToken |-> tok]
         ELSE \* JSON.parse throws after setToken(storedToken)
              [token |-> tok, user |-> user, authToken |-> authToken]
    ELSE [token |-> token, user |-> user, authToken |-> authToken]

\* the try block of loadStoredAuth throws once both reads have settled
RestoreThrows(tok, usr) == Truthy(tok) /\ Truthy(usr) /\ ~IsJSON(usr)

\* await SecureStore.getItemAsync(USER_KEY) settles
RestoreGetUser ==
    /\ restorePc = "getUser"
    /\ \/ LET c == RestoreCommit(restoreToken, storedUser)
          IN  /\ token' = c.token
              /\ user' = c.user
              /\ authToken' = c.authToken
              /\ isLoading' = IsLoadingAfterRestore(
                                  RestoreThrows(restoreToken, storedUser))
       \/ \* the read rejects: catch, finally
          /\ UNCHANGED <<token, user, authToken>>
          /\ isLoading' = IsLoadingAfterRestore(TRUE)
    /\ restorePc' = "done"
    /\ UNCHANGED <<storedToken, storedUser, restoreToken, locals, closureUser>>
    /\ UNCHANGED views

\* the app is closed and started again: memory is lost, the secure store stays
Restart ==
    /\ restorePc = "done"
    /\ \A h \in Handlers : pc[h] = "idle"
    /\ token' = Null
    /\ user' = NullUser
    /\ isLoading' = TRUE
    /\ authToken' = Null
    /\ restorePc' = "getToken"
    /\ restoreToken' = Null
    /\ closureUser' = NullUser
    /\ UNCHANGED <<storedToken, storedUser, locals>>
    /\ UNCHANGED views

\* the screen renders: the updateUser it hands to its handlers from now on
\* closes over the published user
Render ==
    /\ ~isLoading
    /\ closureUser # user
    /\ closureUser' = user
    /\ UNCHANGED <<session, isLoading, restorePc, restoreToken, locals>>
    /\ UNCHANGED views

\* ------------------------------------------------------------------------
\* Requests through the shared client

\* api.get / api.post: the request leaves with what the interceptor adds
SendRequest(h, url, body) ==
    wire' = [wire EXCEPT ![h] =
                [request |-> RequestInterceptor(url, authToken),
                 body |-> body,
                 reply |-> NoReply]]

NoBody == [none |-> TRUE]

\* login's formData: URLSearchParams with username and password
LoginForm(email, password) == [username |-> email, password |-> password]

\* (Swapped: login is called with the two arguments exchanged)
RegisterLoginArgsSwapped(data) ==
    [email |-> data.password, password |-> data.email]

\* register's call login(data.email, data.password)
RegisterLoginArgs(data) == [email |-> data.email, password |-> data.password]

Awaiting(h) == wire[h] # NoWire /\ wire[h].reply = NoReply

Replied(h) == wire[h] # NoWire /\ wire[h].reply # NoReply

\* what the backend can answer to the request of handler h
Replies(h) ==
    LET url == wire[h].request.url
    IN  {[ok |-> FALSE, error |-> e] : e \in HttpErrors(url)}
        \cup
        (IF url = "/auth/login"
         THEN {[ok |-> TRUE,
                data |-> [access_token |-> t,
                          user |-> ServerUser(wire[h].body.username)]] :
                  t \in Tokens}
         ELSE {[ok |-> TRUE, data |-> [message |-> "ok"]]})

\* the backend answers (or the request fails on the way)
ServerReply(h) ==
    /\ Awaiting(h)
    /\ \E r \in Replies(h) : wire' = [wire EXCEPT ![h].reply = r]
    /\ UNCHANGED <<session, isLoading, restorePc, restoreToken, pc, op, args,
                   response, loginError, result, closureUser, before>>
    /\ UNCHANGED views

\* the promise of the call settles and the caller's continuation may run
Settle(h, outcome) ==
    /\ pc' = [pc EXCEPT ![h] = "settled"]
    /\ result' = [result EXCEPT ![h] = outcome]

\* the caller has taken the outcome; the handler invocation is over
Return(h) ==
    /\ pc[h] = "settled"
    /\ pc' = [pc EXCEPT ![h] = "idle"]
    /\ op' = [op EXCEPT ![h] = "none"]
    /\ args' = [args EXCEPT ![h] = NoArgs]
    /\ response' = [response EXCEPT ![h] = NoResponse]
    /\ loginError' = [loginError EXCEPT ![h] = NoError]
    /\ result' = [result EXCEPT ![h] = Pending]
    /\ before' = [before EXCEPT ![h] = NoSnapshot]
    /\ UNCHANGED <<session, isLoading, restorePc, restoreToken, wire,
                   closureUser>>
    /\ UNCHANGED views

\* ------------------------------------------------------------------------
\* login

\* login(email, password) up to await api.post('/auth/login', ...)
LoginStart(h, email, password) ==
    /\ op' = [op EXCEPT ![h] = "login"]
    /\ args' = [args EXCEPT ![h] = [email |-> email, password |-> password]]
    /\ before' = [before EXCEPT ![h] = Snapshot]
    /\ SendRequest(h, "/auth/login", LoginForm(email, password))
    /\ pc' = [pc EXCEPT ![h] = "login:post"]
    /\ UNCHANGED <<session, isLoading, restorePc, restoreToken, response,
                   loginError, result, closureUser>>
    /\ UNCHANGED views

\* a screen calls login while no other call is in progress
LoginCall(h, email, password) ==
    /\ MayCall(h)
    /\ LoginStart(h, email, password)

\* what the caller of the failed call gets: login's catch, and around it
\* register's catch when login was called by register
LoginRejection(h, error) ==
    IF op[h] = "register"
    THEN RegisterCatch(LoginCatch(error))
    ELSE LoginCatch(error)

\* login throws: catch block, the promise rejects
LoginFail(h, error) ==
    /\ loginError' = [loginError EXCEPT ![h] = LoginCatch(error)]
    /\ Settle(h, Rejected(LoginRejection(h, error)))

\* await api.post('/auth/login') settles
LoginResponse(h) ==
    /\ pc[h] = "login:post"
    /\ Replied(h)
    /\ wire' = [wire EXCEPT ![h] = NoWire]
    /\ IF wire[h].reply.ok
       THEN /\ response' = [response EXCEPT ![h] = wire[h].reply.data]
            /\ pc' = [pc EXCEPT ![h] = "login:setToken"]
            /\ UNCHANGED <<authToken, loginError, result>>
       ELSE /\ LoginFail(h, ResponseInterceptorReject(wire[h].reply.error))
            /\ authToken' =
                   ResponseInterceptorToken(wire[h].reply.error, authToken)
            /\ UNCHANGED response
    /\ UNCHANGED <<token, user, storedToken, storedUser, isLoading, restorePc,
                   restoreToken, op, args, closureUser, before>>
    /\ UNCHANGED views

\* await SecureStore.setItemAsync(TOKEN_KEY, access_token) settles
LoginSetToken(h) ==
    /\ pc[h] = "login:setToken"
    /\ \/ /\ storedToken' = response[h].access_token
          /\ pc' = [pc EXCEPT ![h] = "login:setUser"]
          /\ UNCHANGED <<loginError, result>>
       \/ /\ LoginFail(h, SecureStoreError)
          /\ UNCHANGED storedToken
    /\ UNCHANGED <<token, user, authToken, storedUser, isLoading, restorePc,
                   restoreToken, op, args, wire, response, closureUser, before>>
    /\ UNCHANGED views

\* the rest of login once both items are stored:
\* setAuthToken(access_token); setToken(access_token); setUser(userData)
\* (StaleHeader: setAuthToken is given the provider's `token` state)
LoginCommitStaleHeader(data) ==
    [authToken |-> token,
     token |-> data.access_token,
     user |-> data.user]

LoginCommit(data) ==
    [authToken |-> data.access_token,
     token |-> data.access_token,
     user |-> data.user]

\* await SecureStore.setItemAsync(USER_KEY, JSON.stringify(userData)) settles
LoginSetUser(h) ==
    /\ pc[h] = "login:setUser"
    /\ \/ /\ storedUser' = JSONStringify(response[h].user)
          /\ authToken' = LoginCommit(response[h]).authToken
          /\ token' = LoginCommit(response[h]).token
          /\ user' = LoginCommit(response[h]).user
          /\ Settle(h, Fulfilled)
          /\ UNCHANGED loginError
       \/ /\ LoginFail(h, SecureStoreError)
          /\ UNCHANGED <<storedUser, authToken, token, user>>
    /\ UNCHANGED <<storedToken, isLoading, restorePc, restoreToken, op, args,
                   wire, response, closureUser, before>>
    /\ UNCHANGED views

\* ------------------------------------------------------------------------
\* register

\* register(data) up to await api.post('/auth/register', data)
RegisterCall(h, email, password) ==
    /\ MayCall(h)
    /\ op' = [op EXCEPT ![h] = "register"]
    /\ args' = [args EXCEPT ![h] = [email |-> email, password |-> password]]
    /\ before' = [before EXCEPT ![h] = Snapshot]
    /\ SendRequest(h, "/auth/register",
                    [email |-> email, password |-> password])
    /\ pc' = [pc EXCEPT ![h] = "register:post"]
    /\ UNCHANGED <<session, isLoading, restorePc, restoreToken, response,
                   loginError, result, closureUser>>
    /\ UNCHANGED views

\* await api.post('/auth/register') settles; on success login is called with
\* data.email and data.password
RegisterResponse(h) ==
    /\ pc[h] = "register:post"
    /\ Replied(h)
    /\ IF wire[h].reply.ok
       THEN /\ LET a == RegisterLoginArgs(args[h])
                IN  SendRequest(h, "/auth/login",
                                LoginForm(a.email, a.password))
            /\ pc' = [pc EXCEPT ![h] = "login:post"]
            /\ UNCHANGED <<authToken, result>>
       ELSE /\ wire' = [wire EXCEPT ![h] = NoWire]
            /\ Settle(h, Rejected(RegisterCatch(
                   ResponseInterceptorReject(wire[h].reply.error))))
            /\ authToken' =
                   ResponseInterceptorToken(wire[h].reply.error, authToken)
    /\ UNCHANGED <<token, user, storedToken, storedUser, isLoading, restorePc,
                   restoreToken, op, args, response, loginError, closureUser,
                   before>>
    /\ UNCHANGED views

\* ------------------------------------------------------------------------
\* logout

\* logout() up to await SecureStore.deleteItemAsync(TOKEN_KEY)
LogoutStart(h) ==
    /\ op' = [op EXCEPT ![h] = "logout"]
    /\ before' = [before EXCEPT ![h] = Snapshot]
    /\ pc' = [pc EXCEPT ![h] = "logout:deleteToken"]
    /\ UNCHANGED <<session, isLoading, restorePc, restoreToken, args, wire,
                   response, loginError, result, closureUser>>
    /\ UNCHANGED views

\* a screen calls logout while no other call is in progress
LogoutCall(h) ==
    /\ MayCall(h)
    /\ LogoutStart(h)

\* await SecureStore.deleteItemAsync(TOKEN_KEY) settles
LogoutDeleteToken(h) ==
    /\ pc[h] = "logout:deleteToken"
    /\ \/ /\ storedToken' = Null
          /\ pc' = [pc EXCEPT ![h] = "logout:deleteUser"]
          /\ UNCHANGED result
       \/ \* the deletion rejects: catch logs it, logout resolves
          /\ Settle(h, Fulfilled)
          /\ UNCHANGED storedToken
    /\ UNCHANGED <<token, user, authToken, storedUser, isLoading, restorePc,
                   restoreToken, op, args, wire, response, loginError,
                   closureUser, before>>
    /\ UNCHANGED views

\* the rest of logout once both items are deleted:
\* setAuthToken(null); setToken(null); setUser(null)
\* (KeepsHeader: setAuthToken(null) is left out)
LogoutCommitKeepsHeader ==
    [authToken |-> authToken, token |-> Null, user |-> NullUser]

LogoutCommit ==
    [authToken |-> Null, token |-> Null, user |-> NullUser]

\* await SecureStore.deleteItemAsync(USER_KEY) settles
LogoutDeleteUser(h) ==
    /\ pc[h] = "logout:deleteUser"
    /\ \/ /\ storedUser' = Null
          /\ authToken' = LogoutCommit.authToken
          /\ token' = LogoutCommit.token
          /\ user' = LogoutCommit.user
       \/ \* the deletion rejects: catch logs it, logout resolves
          UNCHANGED <<storedUser, authToken, token, user>>
    /\ Settle(h, Fulfilled)
    /\ UNCHANGED <<storedToken, isLoading, restorePc, restoreToken, op, args,
                   wire, response, loginError, closureUser, before>>
    /\ UNCHANGED views

\* ------------------------------------------------------------------------
\* updateUser

\* updateUser(userData) up to await SecureStore.setItemAsync(USER_KEY, ...);
\* `user` is the one the caller's updateUser closed over
UpdateUserStart(h, userData) ==
    /\ op' = [op EXCEPT ![h] = "updateUser"]
    /\ before' = [before EXCEPT ![h] = Snapshot]
    /\ IF closureUser # NullUser
       THEN LET updatedUser == Spread(closureUser, userData)
            IN  /\ user' = updatedUser
                /\ args' = [args EXCEPT ![h] =
                               [userData |-> userData,
                                updatedUser |-> updatedUser]]
                /\ pc' = [pc EXCEPT ![h] = "updateUser:setUser"]
                /\ UNCHANGED result
       ELSE /\ args' = [args EXCEPT ![h] = [userData |-> userData]]
            /\ Settle(h, Fulfilled)
            /\ UNCHANGED user
    /\ UNCHANGED <<token, authToken, storedToken, storedUser, isLoading,
                   restorePc, restoreToken, wire, response, loginError,
                   closureUser>>
    /\ UNCHANGED views

UpdateUserCall(h, userData) ==
    /\ MayCall(h)
    /\ UpdateUserStart(h, userData)

\* await SecureStore.setItemAsync(USER_KEY, JSON.stringify(updatedUser)) settles
UpdateUserSetUser(h) ==
    /\ pc[h] = "updateUser:setUser"
    /\ \/ storedUser' = JSONStringify(args[h].updatedUser)
       \/ \* the write rejects: catch logs it, updateUser resolves
          UNCHANGED storedUser
    /\ Settle(h, Fulfilled)
    /\ UNCHANGED <<token, user, authToken, storedToken, isLoading, restorePc,
                   restoreToken, op, args, wire, response, loginError,
                   closureUser, before>>
    /\ UNCHANGED views

\* ------------------------------------------------------------------------
\* a facade call made by a screen (clockAPI.getStatus and the like)

FacadeCall(h, url) ==
    /\ MayCall(h)
    /\ op' = [op EXCEPT ![h] = "facade"]
    /\ SendRequest(h, url, NoBody)
    /\ pc' = [pc EXCEPT ![h] = "facade:request"]
    /\ UNCHANGED <<session, isLoading, restorePc, restoreToken, args,
                   response, loginError, result, closureUser, before>>
    /\ UNCHANGED views

\* the facade's promise settles with what the response interceptor passes on
FacadeResponse(h) ==
    /\ pc[h] = "facade:request"
    /\ Replied(h)
    /\ wire' = [wire EXCEPT ![h] = NoWire]
    /\ IF wire[h].reply.ok
       THEN /\ Settle(h, Fulfilled)
            /\ UNCHANGED authToken
       ELSE /\ Settle(h, Rejected(
                   ResponseInterceptorReject(wire[h].reply.error)))
            /\ authToken' =
                   ResponseInterceptorToken(wire[h].reply.error, authToken)
    /\ UNCHANGED <<token, user, storedToken, storedUser, isLoading, restorePc,
                   restoreToken, op, args, response, loginError, closureUser,
                   before>>
    /\ UNCHANGED views

\* ------------------------------------------------------------------------
\* Specification

Next ==
    \/ RestoreGetToken
    \/ RestoreGetUser
    \/ Restart
    \/ Render
    \/ \E h \in Handlers : ServerReply(h)
    \/ \E h \in Handlers : Return(h)
    \/ \E h \in Handlers, e \in Emails, p \in Passwords : LoginCall(h, e, p)
    \/ \E h \in Handlers : LoginResponse(h)
    \/ \E h \in Handlers : LoginSetToken(h)
    \/ \E h \in Handlers : LoginSetUser(h)
    \/ \E h \in Handlers, e \in Emails, p \in Passwords : RegisterCall(h, e, p)
    \/ \E h \in Handlers : RegisterResponse(h)
    \/ \E h \in Handlers : LogoutCall(h)
    \/ \E h \in Handlers : LogoutDeleteToken(h)
    \/ \E h \in Handlers : LogoutDeleteUser(h)
    \/ \E h \in Handlers, d \in UserPatches : UpdateUserCall(h, d)
    \/ \E h \in Handlers : UpdateUserSetUser(h)
    \/ \E h \in Handlers : FacadeCall(h, "/clock/status")
    \/ \E h \in Handlers : FacadeResponse(h)

Spec == Init /\ [][Next]_vars

\* ------------------------------------------------------------------------
\* Restore under any content of the secure store: the started app finds the
\* items absent, written by an earlier run, or not parseable. The platform
\* settles every pending storage read, so the continuation of loadStoredAuth
\* that waits for it eventually runs.

StoredTokens == {Null} \cup Tokens

StoredUsers ==
    {Null, Corrupt} \cup {JSONStringify(ServerUser(e)) : e \in Emails}

InitStored ==
    /\ token = Null
    /\ user = NullUser
    /\ isLoading = TRUE
    /\ authToken = Null
    /\ storedToken \in StoredTokens
    /\ storedUser \in StoredUsers
    /\ restorePc = "getToken"
    /\ restoreToken = Null
    /\ pc = [h \in Handlers |-> "idle"]
    /\ op = [h \in Handlers |-> "none"]
    /\ args = [h \in Handlers |-> NoArgs]
    /\ wire = [h \in Handlers |-> NoWire]
    /\ response = [h \in Handlers |-> NoResponse]
    /\ loginError = [h \in Handlers |-> NoError]
    /\ result = [h \in Handlers |-> Pending]
    /\ closureUser = NullUser
    /\ before = [h \in Handlers |-> NoSnapshot]
    /\ ViewsAtRest

FairSpec ==
    /\ InitStored
    /\ [][Next]_vars
    /\ WF_vars(RestoreGetToken)
    /\ WF_vars(RestoreGetUser)

\* ------------------------------------------------------------------------
\* Loading api.ts in any build: API_BASE_URL is evaluated once

InitConfig ==
    /\ StoreAtStart
    /\ config \in [build : Builds, baseURL : {Null}]
    /\ screen = NoScreenCall
    /\ clock = NoClockScreen

LoadApiModule ==
    /\ config.baseURL = Null
    /\ config' = [config EXCEPT !.baseURL = API_BASE_URL(config.build)]
    /\ UNCHANGED <<session, isLoading, restorePc, restoreToken, locals,
                   closureUser, screen, clock>>

SpecConfig == InitConfig /\ [][LoadApiModule]_vars

\* ------------------------------------------------------------------------
\* Screens: a handler awaits a backend call inside try; what follows a
\* rejection is the handler's catch block, or nothing when it has none

NoAlert == "<no alert>"

\* a call site: the handler, the request (its path, or the facade function
\* where the path is not in this source), and its catch block:
\*   "detail"  Alert.alert(..., error.response?.data?.detail || fallback)
\*   "generic" Alert.alert(..., fallback)
\*   "log"     console.warn / console.error only
\*   "none"    try ... finally without catch
CallSite(handler, url, catch, fallback) ==
    [handler |-> handler, url |-> url, catch |-> catch,
     fallback |-> fallback]

ResetPasswordScreenCalls ==
    {CallSite("handleSendCode", "/auth/password-reset/request", "none", ""),
     CallSite("handleConfirmReset", "/auth/password-reset/confirm", "detail",
              "Password reset failed")}

TimesheetsScreenCalls ==
    {CallSite("fetchTimesheets", "/timesheets/", "log", "")}

DashboardScreenCalls ==
    {CallSite("toggleOvertimeMode", "clockAPI.setOvertimeMode", "log", ""),
     CallSite("fetchAssignment", "assignmentAPI.getAssignment", "log", ""),
     CallSite("respondToAssignment", "assignmentAPI.respondToAssignment", "log", ""),
     CallSite("fetchClockStatus", "/clock/status", "log", "")}

TicketsScreenCalls ==
    {CallSite("fetchData", "/tickets/types", "log", ""),
     CallSite("handleUpload", "/tickets/upload", "detail",
              "Failed to upload ticket"),
     CallSite("handleDelete", "/tickets/1", "generic",
              "Failed to delete ticket")}

InductionScreenCalls ==
    {CallSite("fetchData", "/induction/status", "log", ""),
     CallSite("handleSignature", "/induction/sign", "detail",
              "Failed to sign document")}

TimesheetDetailScreenCalls ==
    {CallSite("fetchTimesheet", "/timesheets/1", "generic",
              "Unable to load timesheet"),
     CallSite("handleSubmit", "/timesheets/entries/1/submit", "detail",
              "Failed to submit")}

ClockScreenCalls ==
    {CallSite("handleClockIn", "/clock/in", "detail",
              "Failed to clock in. Please try again."),
     CallSite("submitClockOut", "/clock/out", "detail",
              "Failed to clock out. Please try again.")}

CallSites ==
    ResetPasswordScreenCalls \cup TimesheetsScreenCalls
    \cup DashboardScreenCalls \cup TicketsScreenCalls
    \cup InductionScreenCalls \cup TimesheetDetailScreenCalls
    \cup ClockScreenCalls

\* what the user sees once the handler is through with the rejection, and
\* whether the rejection left the handler uncaught
CatchBlock(site, error) ==
    CASE site.catch = "detail" ->
             [alert |-> OrElse(ResponseDetail(error), site.fallback),
              unhandled |-> FALSE]
      [] site.catch = "generic" ->
             [alert |-> site.fallback, unhandled |-> FALSE]
      [] site.catch = "log" ->
             [alert |-> NoAlert, unhandled |-> FALSE]
      [] site.catch = "none" ->
             [alert |-> NoAlert, unhandled |-> TRUE]

InitScreens ==
    /\ StoreLoggedIn
    /\ ViewsAtRest

\* the handler runs up to its await
ScreenCall(site) ==
    /\ screen = NoScreenCall
    /\ screen' = [site |-> site, phase |-> "awaiting", reply |-> NoReply,
                  alert |-> NoAlert, unhandled |-> FALSE]
    /\ UNCHANGED <<session, isLoading, restorePc, restoreToken, locals,
                   closureUser, config, clock>>

\* the backend answers, or the request fails on the way
ScreenReply ==
    /\ screen # NoScreenCall
    /\ screen.phase = "awaiting"
    /\ \E r \in {[ok |-> TRUE]} \cup
                 {[ok |-> FALSE, error |-> ResponseInterceptorReject(e)] :
                      e \in HttpErrors(screen.site.url)} :
           screen' = [screen EXCEPT !.phase = "replied", !.reply = r]
    /\ UNCHANGED <<session, isLoading, restorePc, restoreToken, locals,
                   closureUser, config, clock>>

\* the handler resumes: the rest of try, or catch, then finally
ScreenResume ==
    /\ screen # NoScreenCall
    /\ screen.phase = "replied"
    /\ screen' =
           IF screen.reply.ok
           THEN [screen EXCEPT !.phase = "done"]
           ELSE LET c == CatchBlock(screen.site, screen.reply.error)
                IN  [screen EXCEPT !.phase = "done", !.alert = c.alert,
                                   !.unhandled = c.unhandled]
    /\ UNCHANGED <<session, isLoading, restorePc, restoreToken, locals,
                   closureUser, config, clock>>

\* the user goes on
ScreenDismiss ==
    /\ screen # NoScreenCall
    /\ screen.phase = "done"
    /\ screen' = NoScreenCall
    /\ UNCHANGED <<session, isLoading, restorePc, restoreToken, locals,
                   closureUser, config, clock>>

NextScreens ==
    \/ \E site \in CallSites : ScreenCall(site)
    \/ ScreenReply
    \/ ScreenResume
    \/ ScreenDismiss

SpecScreens == InitScreens /\ [][NextScreens]_vars

\* ------------------------------------------------------------------------
\* ClockInScreen and ClockOutScreen: the GPS fix, the address, the button

\* what reverse geocoding may give, what the user may type
GpsAddresses == {"1 Site Rd"}

TypedTexts == {" ", "12 Main St"}

\* response.data.job_sites of GET /clients/job-sites/all
ServerJobSites == <<"site1">>

\* text.trim()
Trim(text) == IF text = " " THEN "" ELSE text

MountClockIn ==
    [screen |-> "ClockIn", locPc |-> "permission", isLoadingLocation |-> TRUE,
     location |-> Null, address |-> "", manualAddress |-> "",
     isEditingAddress |-> FALSE, selectedJobSite |-> Null,
     isSubmitting |-> FALSE, alert |-> NoAlert, request |-> NoBody,
     jobsPc |-> "debug", jobSites |-> <<>>,
     jobCalls |-> <<"/debug/headers">>]

MountClockOut ==
    [screen |-> "ClockOut", locPc |-> "permission", isLoadingLocation |-> TRUE,
     location |-> Null, address |-> "",
     isSubmitting |-> FALSE, alert |-> NoAlert, request |-> NoBody]

Mounted(name) == clock # NoClockScreen /\ clock.screen = name

\* catch (error) of getLocation, then finally
LocationError ==
    [clock EXCEPT !.locPc = "done", !.isLoadingLocation = FALSE,
                  !.alert = "Location Error"]

\* the screen mounts: useEffect calls getLocation
OpenClockScreen ==
    /\ clock = NoClockScreen
    /\ clock' \in {MountClockIn, MountClockOut}
    /\ UNCHANGED <<session, isLoading, restorePc, restoreToken, locals,
                   closureUser, config, screen>>

\* await Location.requestForegroundPermissionsAsync() settles
LocationPermission ==
    /\ clock # NoClockScreen
    /\ clock.locPc = "permission"
    /\ \/ clock' = [clock EXCEPT !.locPc = "position"]
       \/ clock' = [clock EXCEPT !.locPc = "done",
                                 !.isLoadingLocation = FALSE,
                                 !.alert = "Permission Required"]
       \/ clock' = LocationError
    /\ UNCHANGED <<session, isLoading, restorePc, restoreToken, locals,
                   closureUser, config, screen>>

\* await Location.getCurrentPositionAsync() settles
LocationPosition ==
    /\ clock # NoClockScreen
    /\ clock.locPc = "position"
    /\ \/ clock' = [clock EXCEPT !.locPc = "geocode", !.location = "fix"]
       \/ clock' = LocationError
    /\ UNCHANGED <<session, isLoading, restorePc, restoreToken, locals,
                   closureUser, config, screen>>

\* await Location.reverseGeocodeAsync() settles
LocationGeocode ==
    /\ clock # NoClockScreen
    /\ clock.locPc = "geocode"
    /\ \/ \E a \in GpsAddresses :
              clock' = [clock EXCEPT !.locPc = "done",
                                     !.isLoadingLocation = FALSE,
                                     !.address = a]
       \/ \* no result
          clock' = [clock EXCEPT !.locPc = "done",
                                 !.isLoadingLocation = FALSE]
       \/ clock' = LocationError
    /\ UNCHANGED <<session, isLoading, restorePc, restoreToken, locals,
                   closureUser, config, screen>>

\* "Refresh GPS" / "Try GPS Again": getLocation is called again
GetLocationAgain ==
    /\ clock # NoClockScreen
    /\ clock.locPc = "done"
    /\ ~clock.isLoadingLocation
    /\ ~clock.isSubmitting
    /\ clock' = [clock EXCEPT !.locPc = "permission"]
    /\ UNCHANGED <<session, isLoading, restorePc, restoreToken, locals,
                   closureUser, config, screen>>

\* ClockInScreen: the address input is shown without a location, or with one
\* while the address is being edited
TypeManualAddress(text) ==
    /\ Mounted("ClockIn")
    /\ ~clock.isLoadingLocation
    /\ clock.location = Null \/ clock.isEditingAddress
    /\ clock.manualAddress # text
    /\ clock' = [clock EXCEPT !.manualAddress = text,
                              !.isEditingAddress = TRUE]
    /\ UNCHANGED <<session, isLoading, restorePc, restoreToken, locals,
                   closureUser, config, screen>>

\* ClockInScreen: "Edit Address" / "Use GPS Address"
ToggleEditAddress ==
    /\ Mounted("ClockIn")
    /\ ~clock.isLoadingLocation
    /\ clock.location # Null
    /\ clock' = [clock EXCEPT
                     !.isEditingAddress = ~clock.isEditingAddress,
                     !.manualAddress = IF clock.isEditingAddress
                                       THEN clock.manualAddress
                                       ELSE clock.address]
    /\ UNCHANGED <<session, isLoading, restorePc, restoreToken, locals,
                   closureUser, config, screen>>

\* fetchJobSites: await api.get('/debug/headers') settles; on success
\* clientsAPI.getAllJobSites() is called, on failure the catch alerts
FetchJobSitesDebugReply ==
    /\ Mounted("ClockIn")
    /\ clock.jobsPc = "debug"
    /\ \/ clock' = [clock EXCEPT
                        !.jobsPc = "jobSites",
                        !.jobCalls = Append(@, "/clients/job-sites/all")]
       \/ clock' = [clock EXCEPT !.jobsPc = "done",
                                 !.alert = "Job Sites Unavailable"]
    /\ UNCHANGED <<session, isLoading, restorePc, restoreToken, locals,
                   closureUser, config, screen>>

\* fetchJobSites: await clientsAPI.getAllJobSites() settles
FetchJobSitesReply ==
    /\ Mounted("ClockIn")
    /\ clock.jobsPc = "jobSites"
    /\ \/ clock' = [clock EXCEPT !.jobsPc = "done",
                                 !.jobSites = ServerJobSites]
       \/ clock' = [clock EXCEPT !.jobsPc = "done",
                                 !.alert = "Job Sites Unavailable"]
    /\ UNCHANGED <<session, isLoading, restorePc, restoreToken, locals,
                   closureUser, config, screen>>

\* ClockInScreen: a job site of the list is pressed
SelectJobSite ==
    /\ Mounted("ClockIn")
    /\ \E i \in DOMAIN clock.jobSites :
          /\ clock.selectedJobSite # clock.jobSites[i]
          /\ clock' = [clock EXCEPT !.selectedJobSite = clock.jobSites[i]]
    /\ UNCHANGED <<session, isLoading, restorePc, restoreToken, locals,
                   closureUser, config, screen>>

\* ClockInScreen: the button's disabled prop
ClockInDisabled ==
    \/ clock.location = Null /\ Trim(clock.manualAddress) = ""
    \/ clock.selectedJobSite = Null
    \/ clock.isSubmitting

\* handleClockIn without its job-site check
handleClockInAnyJobSite ==
    LET hasLocation == clock.location # Null
        hasManualAddress ==
            clock.isEditingAddress /\ Trim(clock.manualAddress) # ""
        finalAddress == IF clock.isEditingAddress THEN clock.manualAddress
                        ELSE clock.address
    IN  IF ~hasLocation /\ ~hasManualAddress
        THEN [clock EXCEPT !.alert =
                 "Please either enable GPS or enter an address manually."]
        ELSE [clock EXCEPT
                 !.isSubmitting = TRUE,
                 !.alert = NoAlert,
                 !.request = [url |-> "/clock/in", gps |-> hasLocation,
                              address |-> finalAddress,
                              job_site_id |-> clock.selectedJobSite]]

\* handleClockIn
handleClockIn ==
    LET hasLocation == clock.location # Null
        hasManualAddress ==
            clock.isEditingAddress /\ Trim(clock.manualAddress) # ""
        finalAddress == IF clock.isEditingAddress THEN clock.manualAddress
                        ELSE clock.address
    IN  IF ~hasLocation /\ ~hasManualAddress
        THEN [clock EXCEPT !.alert =
                 "Please either enable GPS or enter an address manually."]
        ELSE IF clock.selectedJobSite = Null
        THEN [clock EXCEPT !.alert = "Please select a job site"]
        ELSE [clock EXCEPT
                 !.isSubmitting = TRUE,
                 !.alert = NoAlert,
                 !.request = [url |-> "/clock/in", gps |-> hasLocation,
                              address |-> finalAddress,
                              job_site_id |-> clock.selectedJobSite]]

PressClockIn ==
    /\ Mounted("ClockIn")
    /\ ~ClockInDisabled
    /\ clock' = handleClockIn
    /\ UNCHANGED <<session, isLoading, restorePc, restoreToken, locals,
                   closureUser, config, screen>>

\* ClockOutScreen: the button's disabled prop
ClockOutDisabled == clock.location = Null \/ clock.isSubmitting

\* handleClockOut, submitClockOut
handleClockOut ==
    IF clock.location = Null
    THEN [clock EXCEPT !.alert =
             "Unable to get your location. Please try again."]
    ELSE [clock EXCEPT
             !.isSubmitting = TRUE,
             !.alert = NoAlert,
             !.request = [url |-> "/clock/out", gps |-> TRUE]]

PressClockOut ==
    /\ Mounted("ClockOut")
    /\ ~ClockOutDisabled
    /\ clock' = handleClockOut
    /\ UNCHANGED <<session, isLoading, restorePc, restoreToken, locals,
                   closureUser, config, screen>>

\* await clockAPI.clockIn / clockAPI.clockOut settles: alert, finally
ClockReply ==
    /\ clock # NoClockScreen
    /\ clock.isSubmitting
    /\ \/ clock' = [clock EXCEPT !.isSubmitting = FALSE,
                                  !.alert = "Clocked"]
       \/ \E site \in ClockScreenCalls, e \in HttpErrors(clock.request.url) :
             /\ site.url = clock.request.url
             /\ clock' = [clock EXCEPT !.isSubmitting = FALSE,
                                       !.alert = CatchBlock(site, e).alert]
    /\ UNCHANGED <<session, isLoading, restorePc, restoreToken, locals,
                   closureUser, config, screen>>

\* navigation.goBack()
CloseClockScreen ==
    /\ clock # NoClockScreen
    /\ ~clock.isSubmitting
    /\ clock.locPc = "done"
    /\ clock' = NoClockScreen
    /\ UNCHANGED <<session, isLoading, restorePc, restoreToken, locals,
                   closureUser, config, screen>>

NextClock ==
    \/ OpenClockScreen
    \/ LocationPermission
    \/ LocationPosition
    \/ LocationGeocode
    \/ GetLocationAgain
    \/ \E text \in TypedTexts : TypeManualAddress(text)
    \/ ToggleEditAddress
    \/ FetchJobSitesDebugReply
    \/ FetchJobSitesReply
    \/ SelectJobSite
    \/ PressClockIn
    \/ PressClockOut
    \/ ClockReply
    \/ CloseClockScreen

SpecClock == InitScreens /\ [][NextClock]_vars

\* ------------------------------------------------------------------------
\* Screens that load their data on focus and on pull-to-refresh: TicketsScreen
\* and InductionScreen (two lookups joined by Promise.all), DashboardScreen
\* (one lookup)

\* fetches one screen may have started before it is left
MaxFetches == 2

\* what a lookup answers from one call to the next
Payloads == {"old", "new"}

\* useState([]) / useState(null)
Empty == "<empty>"

\* useState<ClockStatus | null>(null)
NullClockStatus == [null |-> TRUE]

FanInScreens == {"Tickets", "Induction"}

\* the data of a lookup that has not answered with any
NoData(name) == IF name \in FanInScreens THEN Empty ELSE NullClockStatus

PendingReply(name) == [state |-> "pending", data |-> NoData(name)]

OkReply(data) == [state |-> "ok", data |-> data]

ErrorReply(name) == [state |-> "error", data |-> NoData(name)]

\* the default fetchClockStatus falls back to
DefaultClockStatus ==
    [is_clocked_in |-> FALSE, hours_worked_today |-> 0,
     overtime_mode |-> FALSE, week_days_worked |-> 0,
     week_total_hours |-> 0, week_overtime_hours |-> 0]

\* response.data of GET /clock/status
ServerClockStatuses ==
    {[DefaultClockStatus EXCEPT !.is_clocked_in = TRUE,
                                !.overtime_mode = TRUE],
     [DefaultClockStatus EXCEPT !.week_days_worked = 1]}

\* fetchData() / fetchClockStatus() up to its await
StartFetch(s) ==
    [s EXCEPT !.fetches =
        Append(@, IF s.name \in FanInScreens
                  THEN [replies |-> <<PendingReply(s.name),
                                      PendingReply(s.name)>>,
                        settled |-> FALSE]
                  ELSE [replies |-> <<PendingReply(s.name)>>,
                        settled |-> FALSE])]

\* the screen's useState initial values, then useFocusEffect
MountDataScreen(name) ==
    StartFetch(IF name \in FanInScreens
               THEN [name |-> name, lists |-> <<Empty, Empty>>,
                     isLoading |-> TRUE, refreshing |-> FALSE,
                     fetches |-> <<>>]
               ELSE [name |-> name, clockStatus |-> NullClockStatus,
                     isLoading |-> TRUE, refreshing |-> FALSE,
                     fetches |-> <<>>])

DataScreen(names) == screen # NoScreenCall /\ screen.name \in names

OpenDataScreen ==
    /\ screen = NoScreenCall
    /\ \E name \in FanInScreens \cup {"Dashboard"} :
          screen' = MountDataScreen(name)
    /\ UNCHANGED <<session, isLoading, restorePc, restoreToken, locals,
                   closureUser, config, clock>>

\* RefreshControl: onRefresh
onRefresh ==
    /\ DataScreen(FanInScreens \cup {"Dashboard"})
    /\ ~screen.isLoading
    /\ ~screen.refreshing
    /\ Len(screen.fetches) < MaxFetches
    /\ screen' = StartFetch([screen EXCEPT !.refreshing = TRUE])
    /\ UNCHANGED <<session, isLoading, restorePc, restoreToken, locals,
                   closureUser, config, clock>>

\* the screen gains focus again, or fetchData() after an upload or a signature
FetchAgain ==
    /\ DataScreen(FanInScreens \cup {"Dashboard"})
    /\ Len(screen.fetches) < MaxFetches
    /\ screen' = StartFetch(screen)
    /\ UNCHANGED <<session, isLoading, restorePc, restoreToken, locals,
                   closureUser, config, clock>>

\* Promise.all over lookups of which one answers as an error is taken to wait
\* for all and to fulfil
PromiseAllSettled(replies) ==
    IF \E j \in DOMAIN replies : replies[j].state = "pending"
    THEN "pending"
    ELSE "fulfilled"

\* Promise.all: rejected with the first rejection, fulfilled once all are
PromiseAll(replies) ==
    IF \E j \in DOMAIN replies : replies[j].state = "error"
    THEN "rejected"
    ELSE PromiseAllSettled(replies)

\* fetchData after its await: try, catch, finally
fetchData(s, i) ==
    LET f == s.fetches[i]
        all == PromiseAll(f.replies)
    IN  IF f.settled \/ all = "pending" THEN s
        ELSE [s EXCEPT
                 !.lists = IF all = "fulfilled"
                           THEN <<f.replies[1].data, f.replies[2].data>>
                           ELSE @,
                 !.isLoading = FALSE,
                 !.refreshing = FALSE,
                 !.fetches[i].settled = TRUE]

\* one of the two lookups of a fetchData answers
LookupReply(i, j, reply) ==
    /\ DataScreen(FanInScreens)
    /\ i \in DOMAIN screen.fetches
    /\ screen.fetches[i].replies[j] = PendingReply(screen.name)
    /\ screen' = fetchData(
                    [screen EXCEPT !.fetches[i].replies[j] = reply], i)
    /\ UNCHANGED <<session, isLoading, restorePc, restoreToken, locals,
                   closureUser, config, clock>>

\* fetchClockStatus whose catch leaves the status alone
fetchClockStatusKeeping(s, i, reply) ==
    [s EXCEPT !.clockStatus = IF reply.state = "ok" THEN reply.data ELSE @,
              !.isLoading = FALSE,
              !.refreshing = FALSE,
              !.fetches[i] = [replies |-> <<reply>>, settled |-> TRUE]]

\* fetchClockStatus after its await: try, catch, finally
fetchClockStatus(s, i, reply) ==
    [s EXCEPT !.clockStatus = IF reply.state = "ok" THEN reply.data
                              ELSE DefaultClockStatus,
              !.isLoading = FALSE,
              !.refreshing = FALSE,
              !.fetches[i] = [replies |-> <<reply>>, settled |-> TRUE]]

\* clockAPI.getStatus answers
ClockStatusReply(i, reply) ==
    /\ DataScreen({"Dashboard"})
    /\ i \in DOMAIN screen.fetches
    /\ ~screen.fetches[i].settled
    /\ screen' = fetchClockStatus(screen, i, reply)
    /\ UNCHANGED <<session, isLoading, restorePc, restoreToken, locals,
                   closureUser, config, clock>>

\* toggleOvertimeMode: clockAPI.setOvertimeMode answered without error
toggleOvertimeMode ==
    /\ DataScreen({"Dashboard"})
    /\ ~screen.isLoading
    /\ screen.clockStatus # NullClockStatus
    /\ screen.clockStatus.is_clocked_in
    /\ screen' = [screen EXCEPT !.clockStatus.overtime_mode = ~@]
    /\ UNCHANGED <<session, isLoading, restorePc, restoreToken, locals,
                   closureUser, config, clock>>

\* the screen is left once nothing is in flight
CloseDataScreen ==
    /\ DataScreen(FanInScreens \cup {"Dashboard"})
    /\ \A i \in DOMAIN screen.fetches : screen.fetches[i].settled
    /\ screen' = NoScreenCall
    /\ UNCHANGED <<session, isLoading, restorePc, restoreToken, locals,
                   closureUser, config, clock>>

NextLookups ==
    \/ OpenDataScreen
    \/ onRefresh
    \/ FetchAgain
    \/ \E i \in 1..MaxFetches, j \in 1..2,
          reply \in {OkReply(d) : d \in Payloads}
                    \cup {ErrorReply("Tickets")} :
          LookupReply(i, j, reply)
    \/ \E i \in 1..MaxFetches,
          reply \in {OkReply(d) : d \in ServerClockStatuses}
                    \cup {ErrorReply("Dashboard")} :
          ClockStatusReply(i, reply)
    \/ toggleOvertimeMode
    \/ CloseDataScreen

SpecLookups == InitScreens /\ [][NextLookups]_vars

\* ------------------------------------------------------------------------
\* TimesheetDetailScreen: the submit dialog and the signature pad

\* route.params.timesheetId
timesheetId == "timesheet1"

\* the ids of the draft entries of the timesheet
EntryIds == {"entry1", "entry2"}

\* what the dialog shows it is for, and what handleSubmit submits
DialogTarget(s) ==
    IF s.selectedEntry # Null THEN s.selectedEntry ELSE timesheetId

\* the supervisor details typed, and the signature drawn, for a submission
DetailsFor(target) == "supervisor of " \o target

SignatureFor(target) == "signature for " \o target

\* the useState initial values; openedBy records which control opened the
\* dialog last
MountTimesheetDetail ==
    [name |-> "TimesheetDetail", showSubmitModal |-> FALSE,
     showSignatureModal |-> FALSE, selectedEntry |-> Null,
     details |-> "", supervisorSignature |-> Null, isSubmitting |-> FALSE,
     alert |-> NoAlert, request |-> NoBody, openedBy |-> Null]

OpenTimesheetDetail ==
    /\ screen = NoScreenCall
    /\ screen' = MountTimesheetDetail
    /\ UNCHANGED <<session, isLoading, restorePc, restoreToken, locals,
                   closureUser, config, clock>>

\* the list is pressable while no modal covers it
ListShown ==
    /\ DataScreen({"TimesheetDetail"})
    /\ ~screen.showSubmitModal
    /\ ~screen.showSignatureModal

\* openEntrySubmit(entry) for an entry that is not yet submitted
openEntrySubmit(entry) ==
    /\ ListShown
    /\ screen' = [screen EXCEPT !.selectedEntry = entry,
                                !.showSubmitModal = TRUE,
                                !.openedBy = entry]
    /\ UNCHANGED <<session, isLoading, restorePc, restoreToken, locals,
                   closureUser, config, clock>>

\* "Submit for Approval": onPress={() => setShowSubmitModal(true)}
PressSubmitForApproval ==
    /\ ListShown
    /\ screen' = [screen EXCEPT !.showSubmitModal = TRUE,
                                !.openedBy = timesheetId]
    /\ UNCHANGED <<session, isLoading, restorePc, restoreToken, locals,
                   closureUser, config, clock>>

\* Cancel / onRequestClose: setShowSubmitModal(false)
CancelSubmit ==
    /\ DataScreen({"TimesheetDetail"})
    /\ screen.showSubmitModal
    /\ screen' = [screen EXCEPT !.showSubmitModal = FALSE]
    /\ UNCHANGED <<session, isLoading, restorePc, restoreToken, locals,
                   closureUser, config, clock>>

\* the three inputs are filled in for the submission the dialog shows
TypeDetails ==
    /\ DataScreen({"TimesheetDetail"})
    /\ screen.showSubmitModal
    /\ screen.details # DetailsFor(DialogTarget(screen))
    /\ screen' = [screen EXCEPT !.details = DetailsFor(DialogTarget(screen))]
    /\ UNCHANGED <<session, isLoading, restorePc, restoreToken, locals,
                   closureUser, config, clock>>

\* "Tap to Sign" / "Re-sign": the dialog gives way to the signature pad
TapToSign ==
    /\ DataScreen({"TimesheetDetail"})
    /\ screen.showSubmitModal
    /\ screen' = [screen EXCEPT !.supervisorSignature = Null,
                                !.showSubmitModal = FALSE,
                                !.showSignatureModal = TRUE]
    /\ UNCHANGED <<session, isLoading, restorePc, restoreToken, locals,
                   closureUser, config, clock>>

\* handleSignature(signature), then the dialog re-opens
handleSignature ==
    /\ DataScreen({"TimesheetDetail"})
    /\ screen.showSignatureModal
    /\ screen' = [screen EXCEPT
                     !.supervisorSignature =
                         SignatureFor(DialogTarget(screen)),
                     !.showSignatureModal = FALSE,
                     !.showSubmitModal = TRUE]
    /\ UNCHANGED <<session, isLoading, restorePc, restoreToken, locals,
                   closureUser, config, clock>>

\* the signature pad's Cancel: the dialog re-opens without a signature
CancelSignature ==
    /\ DataScreen({"TimesheetDetail"})
    /\ screen.showSignatureModal
    /\ screen' = [screen EXCEPT !.showSignatureModal = FALSE,
                                !.showSubmitModal = TRUE]
    /\ UNCHANGED <<session, isLoading, restorePc, restoreToken, locals,
                   closureUser, config, clock>>

\* handleSubmit up to its await
handleSubmit(s) ==
    IF s.details = ""
    THEN [s EXCEPT !.alert = "Please fill in all fields"]
    ELSE IF s.supervisorSignature = Null
    THEN [s EXCEPT !.alert = "Please get supervisor signature"]
    ELSE [s EXCEPT
             !.isSubmitting = TRUE,
             !.alert = NoAlert,
             !.request =
                 [call |-> IF s.selectedEntry # Null
                           THEN "timesheetsAPI.submitEntry"
                           ELSE "timesheetsAPI.submit",
                  id |-> IF s.selectedEntry # Null THEN s.selectedEntry
                         ELSE timesheetId,
                  details |-> s.details,
                  supervisor_signature |-> s.supervisorSignature]]

\* the dialog's Submit button
PressSubmit ==
    /\ DataScreen({"TimesheetDetail"})
    /\ screen.showSubmitModal
    /\ ~screen.isSubmitting
    /\ screen' = handleSubmit(screen)
    /\ UNCHANGED <<session, isLoading, restorePc, restoreToken, locals,
                   closureUser, config, clock>>

\* handleSubmit after its await: the form is reset on success, the catch
\* alerts, finally
SubmitReply ==
    /\ DataScreen({"TimesheetDetail"})
    /\ screen.isSubmitting
    /\ \/ screen' = [screen EXCEPT !.showSubmitModal = FALSE,
                                   !.selectedEntry = Null,
                                   !.details = "",
                                   !.supervisorSignature = Null,
                                   !.alert = "Success",
                                   !.isSubmitting = FALSE]
       \/ screen' = [screen EXCEPT !.alert = "Failed to submit",
                                   !.isSubmitting = FALSE]
    /\ UNCHANGED <<session, isLoading, restorePc, restoreToken, locals,
                   closureUser, config, clock>>

CloseTimesheetDetail ==
    /\ ListShown
    /\ ~screen.isSubmitting
    /\ screen' = NoScreenCall
    /\ UNCHANGED <<session, isLoading, restorePc, restoreToken, locals,
                   closureUser, config, clock>>

NextTimesheet ==
    \/ OpenTimesheetDetail
    \/ \E entry \in EntryIds : openEntrySubmit(entry)
    \/ PressSubmitForApproval
    \/ CancelSubmit
    \/ TypeDetails
    \/ TapToSign
    \/ handleSignature
    \/ CancelSignature
    \/ PressSubmit
    \/ SubmitReply
    \/ CloseTimesheetDetail

SpecTimesheet == InitScreens /\ [][NextTimesheet]_vars

\* ------------------------------------------------------------------------
\* Overlapping calls: the store does not serialise its operations, so a
\* handler may call login or logout while another handler's call is suspended
\* at an await. A settled promise's continuation runs before the next user
\* event, so no call starts while a caller has yet to take its outcome.

MayOverlap(h) ==
    /\ ~isLoading
    /\ pc[h] = "idle"
    /\ \A g \in Handlers : pc[g] # "settled"

LoginCallOverlapping(h, email, password) ==
    /\ MayOverlap(h)
    /\ LoginStart(h, email, password)

LogoutCallOverlapping(h) ==
    /\ MayOverlap(h)
    /\ LogoutStart(h)

NextOverlap ==
    \/ RestoreGetToken
    \/ RestoreGetUser
    \/ \E h \in Handlers : ServerReply(h)
    \/ \E h \in Handlers : Return(h)
    \/ \E h \in Handlers, e \in Emails, p \in Passwords :
           LoginCallOverlapping(h, e, p)
    \/ \E h \in Handlers : LoginResponse(h)
    \/ \E h \in Handlers : LoginSetToken(h)
    \/ \E h \in Handlers : LoginSetUser(h)
    \/ \E h \in Handlers : LogoutCallOverlapping(h)
    \/ \E h \in Handlers : LogoutDeleteToken(h)
    \/ \E h \in Handlers : LogoutDeleteUser(h)

SpecOverlap == Init /\ [][NextOverlap]_vars

\* a screen calls updateUser while another updateUser is still in progress
UpdateUserCallOverlapping(h, userData) ==
    /\ MayOverlap(h)
    /\ UpdateUserStart(h, userData)

NextUpdates ==
    \/ Render
    \/ \E h \in Handlers, d \in ProfilePatches :
          UpdateUserCallOverlapping(h, d)
    \/ \E h \in Handlers : UpdateUserSetUser(h)
    \/ \E h \in Handlers : Return(h)

SpecUpdates == InitScreens /\ [][NextUpdates]_vars

\* ------------------------------------------------------------------------
\* Properties of the session store and the HTTP client

Settled(h, name) == pc[h] = "settled" /\ op[h] = name

\* the handler's request leaves in this step
Sends(h) ==
    /\ wire'[h] # NoWire
    /\ wire'[h].reply = NoReply
    /\ ~Awaiting(h)

\* the reply to the handler's request is handled in this step
Handles(h) == Replied(h) /\ wire'[h] # wire[h]

\* C1: in every state the in-memory token is non-null if and only if the
\* in-memory user is non-null.
C1_TokenIffUser == (token # Null) <=> (user # NullUser)

\* C2: whenever the store reports a token t, the HTTP client's token is t and
\* a request sent now carries Authorization: Bearer t; when login has resolved,
\* t and the user are the ones the server returned.
C2_HeaderSetBeforePublish ==
    /\ isAuthenticated =>
          /\ authToken = token
          /\ RequestInterceptor("/clock/status", authToken).Authorization
                 = "Bearer " \o token
    /\ \A h \in Handlers :
          Settled(h, "login") /\ result[h] = Fulfilled =>
              /\ isAuthenticated
              /\ token = response[h].access_token
              /\ user = response[h].user

C2_Witness ==
    \E h \in Handlers :
        /\ Settled(h, "login")
        /\ result[h] = Fulfilled
        /\ before[h].token = Null
        /\ token \in Tokens
        /\ authToken = token

\* C3: once a logout that follows a login has returned, the in-memory token
\* and user are null, the HTTP client holds no token and neither item remains
\* in secure storage.
C3_LogoutEndsLoggedOut ==
    \A h \in Handlers :
        Settled(h, "logout") =>
            /\ token = Null
            /\ user = NullUser
            /\ authToken = Null
            /\ storedToken = Null
            /\ storedUser = Null

\* C4: when login or register rejects, the in-memory token and user, the HTTP
\* client token and both stored items are what they were before the call.
C4_FailedLoginLeavesSessionUntouched ==
    \A h \in Handlers :
        /\ pc[h] = "settled"
        /\ op[h] \in {"login", "register"}
        /\ result[h].status = "rejected"
        => Snapshot = before[h]

\* C5: when restoreSession finishes and the stored token and the stored user
\* are not both present, the in-memory token and user are null,
\* isAuthenticated is false and the HTTP client token is not set.
C5_RestoreNeedsBothItems ==
    [][ (isLoading /\ ~isLoading' /\ ~(storedToken # Null /\ storedUser # Null))
        => (token' = Null /\ user' = NullUser /\ ~isAuthenticated'
            /\ authToken' = Null) ]_vars

C5_Witness ==
    /\ ~isLoading
    /\ restoreToken # Null
    /\ storedToken = restoreToken
    /\ storedUser = Null
    /\ token = Null
    /\ authToken = Null
    /\ \A h \in Handlers : pc[h] = "idle"

\* no call and no restore is in progress
Quiescent ==
    /\ ~isLoading
    /\ \A h \in Handlers : pc[h] \in {"idle", "settled"}

\* C6: whenever no session operation is in progress, the stored token and user
\* are present exactly when the in-memory token and user are non-null, and
\* hold the same values.
C6_PersistedEqualsMemory ==
    Quiescent =>
        /\ storedToken = token
        /\ storedUser = IF user = NullUser THEN Null ELSE JSONStringify(user)

\* C7: in every state where the store reports logged out, the HTTP client
\* token is null and a request sent now carries no Authorization header; when
\* a logout has cleared the in-memory state, the client token is cleared.
C7_HeaderClearedBeforeState ==
    /\ ~isAuthenticated =>
          /\ authToken = Null
          /\ RequestInterceptor("/clock/status", authToken).Authorization
                 = NoHeader
    /\ \A h \in Handlers :
          Settled(h, "logout") /\ token = Null => authToken = Null

C7_Witness ==
    \E h \in Handlers :
        /\ Settled(h, "logout")
        /\ before[h].token \in Tokens
        /\ before[h].authToken \in Tokens
        /\ token = Null
        /\ authToken = Null

\* C8: every request that leaves carries Authorization: Bearer t exactly when
\* the HTTP client's token is a non-null t at that moment, and no
\* Authorization header otherwise.
C8_HeaderFromTokenAtSend ==
    [][ \A h \in Handlers :
          Sends(h) =>
              wire'[h].request.Authorization =
                  (IF authToken = Null THEN NoHeader
                   ELSE "Bearer " \o authToken) ]_vars

C8_Witness ==
    \E h \in Handlers :
        /\ Awaiting(h)
        /\ op[h] = "facade"
        /\ authToken \in Tokens
        /\ wire[h].request.Authorization = "Bearer " \o authToken

\* C9: a 401 response reaches the caller of the HTTP client as the rejection
\* it is, and handling it changes neither the HTTP client token, nor the
\* in-memory token and user, nor the stored token and user.
C9_UnauthorizedForwardedUnchanged ==
    [][ \A h \in Handlers :
          (/\ Handles(h)
           /\ ~wire[h].reply.ok
           /\ IsUnauthorized(wire[h].reply.error))
          => /\ session' = session
             /\ (op[h] = "facade" =>
                    result'[h] = Rejected(wire[h].reply.error)) ]_vars

C9_Witness ==
    \E h \in Handlers :
        /\ Settled(h, "facade")
        /\ result[h].status = "rejected"
        /\ IsUnauthorized(result[h].reason)
        /\ authToken \in Tokens
        /\ token = authToken

\* C10: when the registration request succeeded and the internal login
\* failed, register rejects with the failure login rejected with.
C10_RegisterSurfacesLoginFailure ==
    \A h \in Handlers :
        Settled(h, "register") /\ loginError[h] # NoError =>
            result[h] = Rejected(loginError[h])

C13_UpdateUserMergesEverywhere ==
    \A h \in Handlers :
        (Settled(h, "updateUser") /\ Truthy(before[h].token)) =>
            \E fields \in UserPatches :
                LET merged == Spread(before[h].user, fields)
                IN  /\ user = merged
                    /\ storedUser = JSONStringify(merged)
                    /\ token = before[h].token
                    /\ storedToken = before[h].storedToken
                    /\ authToken = before[h].authToken
                    /\ wire[h] = NoWire

\* C14: a register call sends its login request only in the step that handles
\* a successful reply to its registration request, and that login request
\* carries the email and password of the registration request; the step that
\* handles a failed registration reply sends nothing and settles the call;
\* while a register call is in progress the in-memory token changes only in
\* the step in which its internal login completes successfully, to the token
\* of the login response.
C14_RegisterThenLogin ==
    [][ \A h \in Handlers :
          /\ (op'[h] = "register" /\ Sends(h)
                 /\ wire'[h].request.url = "/auth/login") =>
                /\ Handles(h)
                /\ wire[h].request.url = "/auth/register"
                /\ wire[h].reply.ok
                /\ wire'[h].body =
                       LoginForm(wire[h].body.email, wire[h].body.password)
          /\ (op[h] = "register" /\ Handles(h)
                 /\ wire[h].request.url = "/auth/register"
                 /\ ~wire[h].reply.ok) =>
                /\ wire'[h] = NoWire
                /\ pc'[h] = "settled"
                /\ result'[h].status = "rejected"
          /\ (op[h] = "register" /\ token' # token) =>
                /\ pc[h] = "login:setUser"
                /\ result'[h] = Fulfilled
                /\ token' = response[h].access_token
      ]_vars

\* a register call has completed through its internal login
C14_Witness ==
    \E h \in Handlers :
        /\ Settled(h, "register")
        /\ result[h] = Fulfilled
        /\ isAuthenticated
        /\ token = response[h].access_token
        /\ user = ServerUser(args[h].email)

\* C15: in every step in which a login or register call handles a failed
\* reply (to the login request, the registration request, or register's
\* internal login request), the call rejects with an Error whose message is
\* the reply's detail when the reply has one, and one of the fallback
\* messages 'Login failed' / 'Registration failed' only when it has none.
C15_ErrorsCarryDetail ==
    [][ \A h \in Handlers :
          (op[h] \in {"login", "register"} /\ Handles(h)
             /\ ~wire[h].reply.ok) =>
              LET detail == ResponseDetail(wire[h].reply.error)
              IN  /\ result'[h].status = "rejected"
                  /\ IF Truthy(detail)
                     THEN result'[h].reason = JsError(detail)
                     ELSE result'[h].reason \in
                              {JsError("Login failed"),
                               JsError("Registration failed")}
      ]_vars

\* C12: once two overlapping login calls have both completed successfully,
\* the persisted token, the persisted user, the in-memory token, the
\* in-memory user and the HTTP client token all come from the response of one
\* and the same of the two calls.
C12_OverlappingLoginsOneWinner ==
    (\A h \in Handlers : Settled(h, "login") /\ result[h] = Fulfilled) =>
        \E h \in Handlers :
            /\ storedToken = response[h].access_token
            /\ storedUser = JSONStringify(response[h].user)
            /\ token = response[h].access_token
            /\ user = response[h].user
            /\ authToken = response[h].access_token

LoggedOutEverywhere ==
    /\ storedToken = Null
    /\ storedUser = Null
    /\ token = Null
    /\ user = NullUser
    /\ authToken = Null

LoggedInEverywhere ==
    /\ Truthy(token)
    /\ user # NullUser
    /\ storedToken = token
    /\ storedUser = JSONStringify(user)
    /\ authToken = token

\* C20: once a logout and a successful login that overlapped have both
\* completed, the persisted record, the in-memory session and the HTTP client
\* token are all logged in with the same token and user, or all logged out.
C20_LogoutAcrossLoginAgrees ==
    (\E h, g \in Handlers :
        /\ Settled(h, "login")
        /\ result[h] = Fulfilled
        /\ Settled(g, "logout")) =>
        (LoggedInEverywhere \/ LoggedOutEverywhere)

\* C19: whenever isLoading is true it eventually becomes false, whether the
\* storage reads succeed, reject, or return user data that cannot be parsed;
\* and isLoading goes from false to true in no step of login, register,
\* logout or updateUser: only a new start of the app sets it again.
C19_RestoreAlwaysFinishes ==
    /\ isLoading ~> ~isLoading
    /\ [][(~isLoading /\ isLoading') => Restart]_vars

\* restore has finished on a stored user that cannot be parsed
C19_Witness ==
    /\ ~isLoading
    /\ restorePc = "done"
    /\ Truthy(storedToken)
    /\ storedUser = Corrupt
    /\ token = storedToken
    /\ user = NullUser

\* the host the development URL is derived from: what precedes the first
\* ":" in the first hostUri that is a non-empty string
DevHost(build) ==
    SplitFirst((IF TruthyText(build.expoHostUri) THEN build.expoHostUri
                ELSE build.manifestHostUri).chars, ":")

DevHostDiscovered(build) == DevHost(build) # <<>>

DevHostUrl(build) == "http://" \o Text(DevHost(build)) \o ":8000/api"

\* the environment override is set
EnvOverrideSet(build) == Truthy(build.EXPO_PUBLIC_API_URL)

\* C18 (as claimed): the resolved base URL is the environment override when
\* set; otherwise the URL derived from the discovered development host when one
\* is discovered; otherwise the production URL.
C18_StrictPriority ==
    (config.baseURL # Null) =>
        config.baseURL =
            IF EnvOverrideSet(config.build)
            THEN config.build.EXPO_PUBLIC_API_URL
            ELSE IF DevHostDiscovered(config.build)
            THEN DevHostUrl(config.build)
            ELSE PRODUCTION_URL

\* C18 (amended): the resolved base URL is the environment override when set;
\* otherwise, in a development build, the URL derived from the discovered
\* development host, or http://localhost:8000/api when none is discovered;
\* otherwise, in any other build, the production URL whether or not a
\* development host is discovered.
C18_PriorityWithinBuild ==
    (config.baseURL # Null) =>
        config.baseURL =
            IF EnvOverrideSet(config.build)
            THEN config.build.EXPO_PUBLIC_API_URL
            ELSE IF ~config.build.DEV
            THEN PRODUCTION_URL
            ELSE IF DevHostDiscovered(config.build)
            THEN DevHostUrl(config.build)
            ELSE "http://localhost:8000/api"

\* a production build in which a development host is discovered has resolved
\* its base URL
C18_Witness ==
    /\ config.baseURL = PRODUCTION_URL
    /\ ~EnvOverrideSet(config.build)
    /\ ~config.build.DEV
    /\ DevHostDiscovered(config.build)

\* C16: whenever a screen handler is through with a failed backend call, an
\* alert is shown that carries the response's detail or the handler's generic
\* fallback, and the rejection has not left the handler uncaught.
C16_FailedCallsAlert ==
    (screen # NoScreenCall /\ screen.phase = "done" /\ ~screen.reply.ok) =>
        /\ ~screen.unhandled
        /\ screen.alert # NoAlert
        /\ screen.alert \in
               {ResponseDetail(screen.reply.error), screen.site.fallback}

\* getLocation has ended without a fix (it failed or permission was denied)
\* and no request is under way
GpsUnavailable ==
    /\ clock # NoClockScreen
    /\ clock.locPc = "done"
    /\ clock.location = Null
    /\ ~clock.isSubmitting

\* the user presses the button and a request leaves that carries no GPS fix
SendsWithoutGps ==
    /\ PressClockIn \/ PressClockOut
    /\ clock'.isSubmitting
    /\ ~clock'.request.gps

\* all the screen asks for besides the location has been entered
AddressEntered ==
    /\ "manualAddress" \in DOMAIN clock
    /\ Trim(clock.manualAddress) # ""
    /\ clock.selectedJobSite # Null

\* C17: on the clock-in and on the clock-out screen, whenever the GPS fix has
\* failed or permission was denied, the screen accepts a typed address, and
\* once the address (and the other required fields) are entered the button
\* sends the request with no GPS location.
C17_ManualFallbackOnBothScreens ==
    GpsUnavailable =>
        /\ ENABLED (\E text \in TypedTexts : TypeManualAddress(text))
        /\ AddressEntered => ENABLED SendsWithoutGps

\* C24: when a logout has completed with a secure-storage deletion having
\* failed (the session it was called on is still published), the persisted
\* token and user, the HTTP client token and the in-memory session are all as
\* they were when logout was called, and logout has resolved.
C24_LogoutAllOrNothing ==
    \A h \in Handlers :
        (Settled(h, "logout") /\ Truthy(before[h].token) /\ Truthy(token)) =>
            /\ Snapshot = before[h]
            /\ result[h] = Fulfilled

\* C25: when an updateUser call made with no user logged in has completed,
\* also one made through an updateUser obtained before a logout, the
\* in-memory user is still null and the persisted user record is unchanged.
C25_UpdateUserLoggedOutNoEffect ==
    \A h \in Handlers :
        (Settled(h, "updateUser") /\ before[h].user = NullUser) =>
            /\ user = NullUser
            /\ storedUser = before[h].storedUser

\* C26: once loading has finished exactly one route group is mounted, the
\* authenticated group exactly while the token is non-null and the anonymous
\* group exactly while it is null; and once a logout has completed no
\* authenticated route is mounted.
C26_RouteGroupFollowsToken ==
    /\ ~isLoading =>
          /\ AppNavigator \in {AuthScreens, AppScreens}
          /\ (AppNavigator = AppScreens) <=> (token # Null)
          /\ (AppNavigator = AuthScreens) <=> (token = Null)
    /\ \A h \in Handlers :
          Settled(h, "logout") => AppNavigator \cap AppScreens = {}

\* C22: once fetchJobSites has finished, the backend calls it made are exactly
\* one call to the job-sites endpoint: the endpoint was asked whatever any
\* other endpoint does, and no other endpoint was asked.
C22_JobSitesSingleCall ==
    (Mounted("ClockIn") /\ clock.jobsPc = "done") =>
        clock.jobCalls = <<"/clients/job-sites/all">>

\* C29: handleClockIn sends a clock-in request, and sets isSubmitting, exactly
\* when a job site is selected and either a GPS location was obtained or the
\* address is being edited and is not blank; otherwise it sends nothing and
\* isSubmitting stays false; and the step that handles the reply of a request
\* (success or failure) leaves isSubmitting false.
C29_ClockInOnlyWhenReady ==
    [][/\ (Mounted("ClockIn") /\ ~clock.isSubmitting) =>
            LET ready ==
                    /\ clock.selectedJobSite # Null
                    /\ \/ clock.location # Null
                       \/ /\ clock.isEditingAddress
                          /\ clock.manualAddress \notin {"", " "}
            IN  /\ handleClockIn.isSubmitting <=> ready
                /\ ~ready => handleClockIn.request = clock.request
                /\ ready => handleClockIn.request.url = "/clock/in"
       /\ (Mounted("ClockIn") /\ PressClockIn) =>
            clock'.isSubmitting /\ clock'.request.url = "/clock/in"
       /\ (Mounted("ClockIn") /\ ClockReply) => ~clock'.isSubmitting
      ]_vars

\* a clock-in request is in flight that was sent without a GPS location, from
\* a typed address
C29_Witness ==
    /\ Mounted("ClockIn")
    /\ clock.isSubmitting
    /\ clock.location = Null
    /\ clock.request.url = "/clock/in"

\* C21: when two updateUser calls with disjoint fields, both made with a user
\* logged in, have both completed, the in-memory user and the persisted user
\* carry the fields of both calls, whether or not the screen rendered between
\* the two calls.
C21_UpdateUserCumulative ==
    \A h, g \in Handlers :
        (/\ h # g
         /\ Settled(h, "updateUser") /\ Settled(g, "updateUser")
         /\ before[h].user # NullUser /\ before[g].user # NullUser
         /\ DOMAIN args[h].userData \cap DOMAIN args[g].userData = {}) =>
            \A c \in {h, g} : \A k \in DOMAIN args[c].userData :
                /\ k \in DOMAIN user
                /\ user[k] = args[c].userData[k]
                /\ IsJSON(storedUser)
                /\ k \in DOMAIN JSONParse(storedUser)
                /\ JSONParse(storedUser)[k] = args[c].userData[k]

\* the fetch of this number settled in this step
SettlesNow(i) ==
    /\ i \in DOMAIN screen'.fetches
    /\ screen'.fetches[i].settled
    /\ i \in DOMAIN screen.fetches => ~screen.fetches[i].settled

\* C23: on the tickets and induction screens a step changes a list only by
\* assigning both lists from the two answers of one fetch whose lookups have
\* both answered without error; a fetch of which a lookup failed changes
\* neither list; and every step in which a fetch ends leaves isLoading and
\* refreshing false.
C23_FanInUpdatesTogether ==
    [][(DataScreen(FanInScreens) /\ screen' # NoScreenCall) =>
          /\ screen'.lists # screen.lists =>
                \E i \in 1..MaxFetches :
                    /\ SettlesNow(i)
                    /\ \A j \in 1..2 :
                          /\ screen'.fetches[i].replies[j].state = "ok"
                          /\ screen'.lists[j] =
                                screen'.fetches[i].replies[j].data
          /\ \A i \in 1..MaxFetches :
                SettlesNow(i) =>
                    /\ ~screen'.isLoading
                    /\ ~screen'.refreshing
                    /\ (\E j \in 1..2 :
                           screen'.fetches[i].replies[j].state = "error")
                       => screen'.lists = screen.lists
      ]_vars

\* a fetch ended with a failed lookup while the other lookup had answered, on
\* a screen that still shows the lists of an earlier fetch
C23_Witness ==
    /\ DataScreen(FanInScreens)
    /\ screen.lists = <<"old", "old">>
    /\ ~screen.isLoading /\ ~screen.refreshing
    /\ \E i \in DOMAIN screen.fetches :
          /\ screen.fetches[i].settled
          /\ screen.fetches[i].replies[1] = OkReply("new")
          /\ screen.fetches[i].replies[2] = ErrorReply(screen.name)

\* C30: the step in which a clock-status fetch of the dashboard ends leaves
\* the default status displayed when the fetch failed, whatever was displayed
\* before, and exactly the server's response when it succeeded, and leaves
\* isLoading and refreshing false.
C30_ClockStatusFallsBackToDefault ==
    [][(DataScreen({"Dashboard"}) /\ screen' # NoScreenCall) =>
          \A i \in 1..MaxFetches :
              SettlesNow(i) =>
                  LET reply == screen'.fetches[i].replies[1]
                  IN  /\ reply.state = "error" =>
                            screen'.clockStatus =
                                [is_clocked_in |-> FALSE,
                                 hours_worked_today |-> 0,
                                 overtime_mode |-> FALSE,
                                 week_days_worked |-> 0,
                                 week_total_hours |-> 0,
                                 week_overtime_hours |-> 0]
                      /\ reply.state = "ok" =>
                            screen'.clockStatus = reply.data
                      /\ ~screen'.isLoading
                      /\ ~screen'.refreshing
      ]_vars

\* the dashboard shows the default status after a failed fetch that followed
\* a fetch which had shown the user clocked in
C30_Witness ==
    /\ DataScreen({"Dashboard"})
    /\ ~screen.isLoading /\ ~screen.refreshing
    /\ screen.clockStatus = DefaultClockStatus
    /\ Len(screen.fetches) = 2
    /\ screen.fetches[1].settled
    /\ screen.fetches[1].replies[1].state = "ok"
    /\ screen.fetches[1].replies[1].data.is_clocked_in
    /\ screen.fetches[2].settled
    /\ screen.fetches[2].replies[1] = ErrorReply("Dashboard")

\* the submit dialog sends its request in this step
SubmitSent ==
    /\ DataScreen({"TimesheetDetail"})
    /\ ~screen.isSubmitting
    /\ screen' # NoScreenCall
    /\ screen'.isSubmitting

\* C27: the request the submit dialog sends is the one of the control that
\* opened the dialog: submitEntry with the entry's id when an entry was
\* tapped, submit with the timesheet id when 'Submit for Approval' was
\* pressed, after any sequence of opening, cancelling and re-opening.
C27_SubmitMatchesOpening ==
    [][SubmitSent =>
          /\ screen'.request.id = screen.openedBy
          /\ screen'.request.call =
                IF screen.openedBy = timesheetId
                THEN "timesheetsAPI.submit"
                ELSE "timesheetsAPI.submitEntry"
      ]_vars

\* C28: the supervisor signature and the supervisor details a submission
\* carries are those captured while the dialog was open for the entry or
\* timesheet being submitted.
C28_SignatureStaysWithItsTarget ==
    [][SubmitSent =>
          /\ screen'.request.supervisor_signature =
                SignatureFor(screen'.request.id)
          /\ screen'.request.details = DetailsFor(screen'.request.id)
      ]_vars

====
